---- MODULE Spec2Model ----
(***************************************************************************)
(* show-ripe-routes.py: query the RIPE database for the route objects of   *)
(* an AS, optionally aggregate them with netaddr's cidr_merge, print one   *)
(* prefix per line.                                                        *)
(*                                                                         *)
(* Strings that the program only compares or prints are TLA+ strings or    *)
(* tuples of their parts.  The ASN argument is a sequence of characters,   *)
(* so that the regular expression is matched character by character.  A    *)
(* route string is a record [kind, ver, addr, len]:                        *)
(*   kind = "cidr"  the text "addr/len" of family ver (host bits kept),    *)
(*   kind = "bare"  the text "addr" with no prefix length,                 *)
(*   kind = "bad"   a text netaddr cannot parse,                           *)
(*   kind = "text"  the value of an attribute that is no route.            *)
(* Addresses are AddrBits wide for IPv4 and AddrBits - 1 wide for IPv6     *)
(* instead of 32 and 128.                                                  *)
(***************************************************************************)
EXTENDS Integers, Sequences, FiniteSets, TLC

VARIABLES pc, argv, args, response, requests, ret, routes, out

vars == <<pc, argv, args, response, requests, ret, routes, out>>

---------------------------------------------------------------------------
(* Bounds of the model *)

AddrBits == 2

MaxRoutes == 4

MaxObjects == 2

MaxAttrs == 1

MaxDigits == 7

---------------------------------------------------------------------------
(* netaddr: IPNetwork *)

Bits(ver) == IF ver = 4 THEN AddrBits ELSE AddrBits - 1

Families == {4, 6}

Min(a, b) == IF a <= b THEN a ELSE b

SeqsUpTo(S, n) == UNION {[1..k -> S] : k \in 0..n}

NoNet == [ver |-> 0, value |-> 0, prefixlen |-> 0]

\* IPNetwork(route): the parsed network keeps the address as written (host
\* bits included); a bare address gets the full prefix length; anything else
\* raises AddrFormatError.
IPNetwork(route) ==
    IF route.kind = "cidr" /\ route.ver \in Families
         /\ route.addr \in 0..(2^Bits(route.ver) - 1)
         /\ route.len \in 0..Bits(route.ver)
    THEN [ok |-> TRUE,
          net |-> [ver |-> route.ver, value |-> route.addr, prefixlen |-> route.len]]
    ELSE IF route.kind = "bare" /\ route.ver \in Families
              /\ route.addr \in 0..(2^Bits(route.ver) - 1)
    THEN [ok |-> TRUE,
          net |-> [ver |-> route.ver, value |-> route.addr,
                   prefixlen |-> Bits(route.ver)]]
    ELSE [ok |-> FALSE, net |-> NoNet]

BlockSize(ver, prefixlen) == 2^(Bits(ver) - prefixlen)

\* IPNetwork.first / IPNetwork.last: the host bits are masked off.
NetFirst(net) == net.value - (net.value % BlockSize(net.ver, net.prefixlen))

NetLast(net) == NetFirst(net) + BlockSize(net.ver, net.prefixlen) - 1

\* str(IPNetwork): "address/prefixlen", the address as it was written.
NetStr(net) ==
    [kind |-> "cidr", ver |-> net.ver, addr |-> net.value, len |-> net.prefixlen]

---------------------------------------------------------------------------
(* netaddr: cidr_merge *)

\* ranges.append((net.version, net.last, net.first, net))
RangeOf(net) ==
    [version |-> net.ver, last |-> NetLast(net), first |-> NetFirst(net),
     original |-> TRUE, net |-> net]

\* Tuple order of ranges.sort(): version, then last, then first; the fourth
\* element compares equal whenever the first three do.
RangeLess(a, b) ==
    \/ a.version < b.version
    \/ a.version = b.version /\ a.last < b.last
    \/ a.version = b.version /\ a.last = b.last /\ a.first < b.first

RECURSIVE InsertRange(_, _)
InsertRange(sorted, r) ==
    IF sorted = <<>> THEN <<r>>
    ELSE IF RangeLess(r, sorted[Len(sorted)])
         THEN Append(InsertRange(SubSeq(sorted, 1, Len(sorted) - 1), r),
                     sorted[Len(sorted)])
         ELSE Append(sorted, r)

RECURSIVE SortRanges(_)
SortRanges(rs) ==
    IF rs = <<>> THEN <<>>
    ELSE InsertRange(SortRanges(SubSeq(rs, 1, Len(rs) - 1)), rs[Len(rs)])

MergeableAnyFamily(hi, lo) == hi.first - 1 <= lo.last

MergeableOverlapOnly(hi, lo) == hi.version = lo.version /\ hi.first <= lo.last

\* ranges[i][0] == ranges[i - 1][0] and ranges[i][2] - 1 <= ranges[i - 1][1]
Mergeable(hi, lo) == hi.version = lo.version /\ hi.first - 1 <= lo.last

MergedKeepsUpperFirst(hi, lo) ==
    [version |-> hi.version, last |-> hi.last, first |-> hi.first,
     original |-> FALSE, net |-> NoNet]

\* ranges[i - 1] = (ranges[i][0], ranges[i][1], min(ranges[i - 1][2], ranges[i][2]))
Merged(hi, lo) ==
    [version |-> hi.version, last |-> hi.last, first |-> Min(lo.first, hi.first),
     original |-> FALSE, net |-> NoNet]

\* i = len(ranges) - 1; while i > 0: ...; i -= 1      (here i is 1-based)
RECURSIVE MergeLoop(_, _)
MergeLoop(rs, i) ==
    IF i < 2 THEN rs
    ELSE IF Mergeable(rs[i], rs[i - 1])
         THEN MergeLoop(SubSeq(rs, 1, i - 2) \o <<Merged(rs[i], rs[i - 1])>>
                          \o SubSeq(rs, i + 1, Len(rs)),
                        i - 1)
         ELSE MergeLoop(rs, i - 1)

\* iprange_to_cidrs: the CIDR blocks, in ascending order, that tile
\* [first, last]: a block inside the range is taken whole, a block that
\* straddles an end of the range is split in two halves.
RECURSIVE CoverBlock(_, _, _, _, _)
CoverBlock(ver, first, last, base, len) ==
    LET top == base + BlockSize(ver, len) - 1
    IN  IF top < first \/ base > last THEN <<>>
        ELSE IF first <= base /\ top <= last
             THEN <<[ver |-> ver, value |-> base, prefixlen |-> len]>>
             ELSE CoverBlock(ver, first, last, base, len + 1)
                    \o CoverBlock(ver, first, last,
                                  base + BlockSize(ver, len + 1), len + 1)

iprange_to_cidrs(ver, first, last) == CoverBlock(ver, first, last, 0, 0)

\* for range_tuple in ranges: an unmerged range gives back the original
\* network, a merged one is split again into CIDR blocks.
RECURSIVE Emit(_)
Emit(rs) ==
    IF rs = <<>> THEN <<>>
    ELSE (IF rs[1].original THEN <<rs[1].net>>
          ELSE iprange_to_cidrs(rs[1].version, rs[1].first, rs[1].last))
           \o Emit(Tail(rs))

cidr_merge(nets) ==
    LET ranges == SortRanges([i \in 1..Len(nets) |-> RangeOf(nets[i])])
    IN  Emit(MergeLoop(ranges, Len(ranges)))

---------------------------------------------------------------------------
(* aggregate_routes *)

NoRoute == [kind |-> "bad", ver |-> 0, addr |-> 0, len |-> 0]

\* The first entry IPNetwork raises on, 0 if there is none.
FirstUnparsable(rs) ==
    IF \E i \in 1..Len(rs) : ~IPNetwork(rs[i]).ok
    THEN CHOOSE i \in 1..Len(rs) :
            /\ ~IPNetwork(rs[i]).ok
            /\ \A j \in 1..(i - 1) : IPNetwork(rs[j]).ok
    ELSE 0

aggregate_routes_skipping(rs) ==
    LET good == SelectSeq(rs, LAMBDA r : IPNetwork(r).ok)
        nets == cidr_merge([i \in 1..Len(good) |-> IPNetwork(good[i]).net])
    IN  [status |-> TRUE, value |-> [i \in 1..Len(nets) |-> NetStr(nets[i])],
         error |-> <<>>]

\* try: IPNetwork each route, cidr_merge, str each result
\* except Exception as error: return False, error
aggregate_routes(rs) ==
    LET bad == FirstUnparsable(rs)
    IN  IF bad # 0
        THEN [status |-> FALSE, value |-> <<>>,
              error |-> <<"invalid IPNetwork ", rs[bad]>>]
        ELSE LET nets == cidr_merge([i \in 1..Len(rs) |-> IPNetwork(rs[i]).net])
             IN  [status |-> TRUE,
                  value |-> [i \in 1..Len(nets) |-> NetStr(nets[i])],
                  error |-> <<>>]

NoRet == [status |-> FALSE, value |-> <<>>, error |-> <<>>]

NoArgs == [asn |-> <<>>, aggregate |-> FALSE, ipv4 |-> FALSE, ipv6 |-> FALSE]

NoResponse == [kind |-> "none", code |-> 0, objects |-> <<>>]

---------------------------------------------------------------------------
(* validate_asn *)

MaxAsnDigits == 6

Digits == {"0", "1", "2", "3", "4", "5", "6", "7", "8", "9"}

\* The number of consecutive digits of s from position i on.
RECURSIVE DigitRun(_, _)
DigitRun(s, i) ==
    IF i <= Len(s) /\ s[i] \in Digits THEN 1 + DigitRun(s, i + 1) ELSE 0

AtEndAbsolute(s, i) == i = Len(s) + 1

\* "$" without re.MULTILINE: the end of the string, or just before a
\* newline that is the last character of the string.
AtEnd(s, i) == i = Len(s) + 1 \/ (i = Len(s) /\ s[i] = "\n")

\* re.search("^AS\d{1,6}$", asn): the length of the match, 0 if there is
\* none.  "^" anchors the match at the first character; \d{1,6} is greedy
\* and backs off one digit at a time.
MatchLength(s) ==
    IF Len(s) >= 2 /\ s[1] = "A" /\ s[2] = "S"
    THEN LET run == Min(DigitRun(s, 3), MaxAsnDigits)
             ends == {n \in 1..run : AtEnd(s, 3 + n)}
         IN  IF ends = {} THEN 0
             ELSE 2 + (CHOOSE n \in ends : \A m \in ends : m <= n)
    ELSE 0

\* return match.group()   /   raise ValueError(...)
validate_asn(asn) ==
    IF MatchLength(asn) > 0
    THEN [ok |-> TRUE, value |-> SubSeq(asn, 1, MatchLength(asn))]
    ELSE [ok |-> FALSE, value |-> <<>>]

---------------------------------------------------------------------------
(* get_routes *)

WantedIgnoresBoth(name, ipv4, ipv6) ==
    IF ipv4 THEN name = "route"
    ELSE IF ipv6 THEN name = "route6"
    ELSE FALSE

\* The if / elif chain that decides whether attribute["value"] is appended.
Wanted(name, ipv4, ipv6) ==
    IF ipv4 /\ ipv6 THEN name = "route" \/ name = "route6"
    ELSE IF ipv4 THEN name = "route"
    ELSE IF ipv6 THEN name = "route6"
    ELSE FALSE

Returned(status, value, error) ==
    [raised |-> FALSE, status |-> status, value |-> value, error |-> error]

Raised(exc) ==
    [raised |-> TRUE, status |-> FALSE, value |-> <<>>, error |-> <<exc>>]

\* for attribute in object['attributes']['attribute']: ...
\* The result carries status FALSE when the else branch returns.
RECURSIVE ScanAttributes(_, _, _, _)
ScanAttributes(attrs, ipv4, ipv6, acc) ==
    IF attrs = <<>> THEN Returned(TRUE, acc, <<>>)
    ELSE IF ~ipv4 /\ ~ipv6
         THEN Returned(FALSE, <<>>,
                       <<"At least one of the arguments must be True [ipv4|ipv6].">>)
         ELSE ScanAttributes(Tail(attrs), ipv4, ipv6,
                             IF Wanted(attrs[1].name, ipv4, ipv6)
                             THEN Append(acc, attrs[1].value)
                             ELSE acc)

\* for object in data["objects"]["object"]: ...
RECURSIVE ScanObjects(_, _, _, _)
ScanObjects(objects, ipv4, ipv6, acc) ==
    IF objects = <<>> THEN Returned(TRUE, acc, <<>>)
    ELSE LET r == ScanAttributes(objects[1], ipv4, ipv6, acc)
         IN  IF ~r.status THEN r
             ELSE ScanObjects(Tail(objects), ipv4, ipv6, r.value)

\* resp is what the registry does with the one request:
\*   "transport"       requests.get raises (no connection, timeout, ...)
\*   "http_error"      a response whose status code is not 200
\*   "not_json"        status 200, json.loads raises
\*   "no_objects"      status 200, JSON without an "objects" member (or an
\*                     empty one)
\*   "no_object_list"  status 200, "objects" has no "object" member
\*   "objects"         status 200, data["objects"]["object"] = resp.objects
get_routes(asn, ipv4, ipv6, resp) ==
    IF resp.kind = "transport" THEN Raised("ConnectionError")
    ELSE IF resp.code # 200
    THEN Returned(FALSE, <<>>, <<"Bad status: ", resp.code>>)
    ELSE IF resp.kind = "not_json" THEN Raised("JSONDecodeError")
    ELSE IF resp.kind = "no_objects"
    THEN Returned(FALSE, <<>>, <<"Route objects not found.">>)
    ELSE IF resp.kind = "no_object_list" THEN Raised("KeyError")
    ELSE ScanObjects(resp.objects, ipv4, ipv6, <<>>)

---------------------------------------------------------------------------
(* main *)

\* A printed line: the statement that printed it, the stream, a literal
\* prefix and the rest of the text.
Line(src, stream, prefix, body) ==
    [src |-> src, stream |-> stream, prefix |-> prefix, body |-> body]

FamilyCheckOmitted(a) == FALSE

\* if not args.ipv4 and not args.ipv6:
NoFamilySelected(a) == ~a.ipv4 /\ ~a.ipv6

AfterParseArgsNoExit(ok) == "check_family"

\* parser.parse_args(): argparse reports a ValueError of type=validate_asn
\* with parser.error(), which exits the process.
AfterParseArgs(ok) == IF ok THEN "check_family" ELSE "exit_usage"

Asn(digits) == <<"A", "S">> \o digits

MainAsns == {Asn(<<"7">>), <<"7">>, <<"a", "s", "7">>}

Cidr(v, a, l) == [kind |-> "cidr", ver |-> v, addr |-> a, len |-> l]

AttrUniverse ==
    { [name |-> "route", value |-> Cidr(4, 1, 1)],
      [name |-> "route", value |-> [kind |-> "bare", ver |-> 4, addr |-> 2, len |-> 0]],
      [name |-> "route", value |-> NoRoute],
      [name |-> "route6", value |-> Cidr(6, 0, 0)],
      [name |-> "origin", value |-> [kind |-> "text", ver |-> 0, addr |-> 0, len |-> 0]] }

Responses ==
    { [kind |-> "transport", code |-> 0, objects |-> <<>>],
      [kind |-> "http_error", code |-> 404, objects |-> <<>>],
      [kind |-> "not_json", code |-> 200, objects |-> <<>>],
      [kind |-> "no_objects", code |-> 200, objects |-> <<>>],
      [kind |-> "no_object_list", code |-> 200, objects |-> <<>>] }
    \cup { [kind |-> "objects", code |-> 200, objects |-> os] :
             os \in SeqsUpTo(SeqsUpTo(AttrUniverse, MaxAttrs), MaxObjects) }

Init ==
    /\ pc = "parse_args"
    /\ argv \in [asn : MainAsns, aggregate : BOOLEAN, ipv4 : BOOLEAN, ipv6 : BOOLEAN]
    /\ args = NoArgs
    /\ response = NoResponse
    /\ requests = 0
    /\ ret = NoRet
    /\ routes = <<>>
    /\ out = <<>>

\* args = parser.parse_args()
ParseArgs ==
    /\ pc = "parse_args"
    /\ LET v == validate_asn(argv.asn)
       IN  /\ pc' = AfterParseArgs(v.ok)
           /\ IF pc' = "exit_usage"
              THEN /\ out' = out \o
                         << Line("argparse", "stderr", "usage: ", <<"[-h] [-a] [-4] [-6] asn">>),
                            Line("argparse", "stderr", "error: ",
                                 <<"argument asn: invalid validate_asn value">>) >>
                   /\ args' = args
              ELSE /\ args' = [asn |-> v.value, aggregate |-> argv.aggregate,
                               ipv4 |-> argv.ipv4, ipv6 |-> argv.ipv6]
                   /\ out' = out
    /\ UNCHANGED <<argv, response, requests, ret, routes>>

\* if not args.ipv4 and not args.ipv6: warning, print(parser.print_help()),
\* return None
CheckFamily ==
    /\ pc = "check_family"
    /\ IF NoFamilySelected(args)
       THEN /\ out' = out \o
                  << Line("L172", "stdout", "WARNING: ",
                          <<"at least one of the arguments is required [--ipv4|--ipv6].">>),
                     Line("L173", "stdout", "usage: ", <<"[-h] [-a] [-4] [-6] asn">>),
                     Line("L173", "stdout", "", <<"None">>) >>
            /\ pc' = "return_no_family"
       ELSE /\ out' = out
            /\ pc' = "get_routes"
    /\ UNCHANGED <<argv, args, response, requests, ret, routes>>

\* status, routes = get_routes(args.asn, args.ipv4, args.ipv6)
\* An exception get_routes does not catch ends the process with a traceback.
GetRoutes ==
    /\ pc = "get_routes"
    /\ \E resp \in Responses :
          LET r == get_routes(args.asn, args.ipv4, args.ipv6, resp)
          IN  /\ response' = resp
              /\ requests' = requests + 1
              /\ IF r.raised
                 THEN /\ pc' = "exit_traceback"
                      /\ out' = Append(out, Line("traceback", "stderr", "", r.error))
                      /\ UNCHANGED <<ret, routes>>
                 ELSE /\ pc' = "check_status"
                      /\ ret' = [status |-> r.status, value |-> r.value, error |-> r.error]
                      /\ routes' = r.value
                      /\ out' = out
    /\ UNCHANGED <<argv, args>>

\* if not status: print("ERROR: " + routes); return None
\* if args.aggregate: ...
CheckStatus ==
    /\ pc = "check_status"
    /\ IF ~ret.status
       THEN /\ out' = Append(out, Line("L179", "stdout", "ERROR: ", ret.error))
            /\ pc' = "return_lookup_failed"
       ELSE /\ out' = out
            /\ pc' = IF args.aggregate THEN "aggregate" ELSE "print"
    /\ UNCHANGED <<argv, args, response, requests, ret, routes>>

\* status, routes = aggregate_routes(routes)
\* if not status: print(routes); return None
Aggregate ==
    /\ pc = "aggregate"
    /\ ret' = aggregate_routes(routes)
    /\ IF ~ret'.status
       THEN /\ out' = Append(out, Line("L186", "stdout", "", ret'.error))
            /\ routes' = <<>>
            /\ pc' = "return_agg_failed"
       ELSE /\ out' = out
            /\ routes' = ret'.value
            /\ pc' = "print"
    /\ UNCHANGED <<argv, args, response, requests>>

RouteLines(o) == SelectSeq(o, LAMBDA l : l.src = "L190")

\* for s in routes: print(s)          (one iteration)
PrintRoute ==
    /\ pc = "print"
    /\ Len(RouteLines(out)) < Len(routes)
    /\ out' = Append(out, Line("L190", "stdout", "",
                               <<routes[Len(RouteLines(out)) + 1]>>))
    /\ UNCHANGED <<pc, argv, args, response, requests, ret, routes>>

\* The loop is over: main returns.
Return ==
    /\ pc = "print"
    /\ Len(RouteLines(out)) = Len(routes)
    /\ pc' = "return_ok"
    /\ UNCHANGED <<argv, args, response, requests, ret, routes, out>>

Next ==
    \/ ParseArgs
    \/ CheckFamily
    \/ GetRoutes
    \/ CheckStatus
    \/ Aggregate
    \/ PrintRoute
    \/ Return

Spec == Init /\ [][Next]_vars

---------------------------------------------------------------------------
(* validate_asn applied to strings around the accepted shape *)

AsnAlphabet == {"A", "S", "a", "0", "9", "x", "\n", " "}

\* Every short string, and "AS" followed by up to MaxDigits digits and up
\* to two more characters.
AsnStrings ==
    SeqsUpTo(AsnAlphabet, 3)
    \cup { Asn(ds) \o tail : ds \in SeqsUpTo({"0", "9"}, MaxDigits),
                             tail \in SeqsUpTo(AsnAlphabet, 2) }

InitAsn ==
    /\ pc = "asn_call"
    /\ argv \in [asn : AsnStrings, aggregate : {FALSE}, ipv4 : {FALSE}, ipv6 : {FALSE}]
    /\ args = NoArgs
    /\ response = NoResponse
    /\ requests = 0
    /\ ret = NoRet
    /\ routes = <<>>
    /\ out = <<>>

AsnCall ==
    /\ pc = "asn_call"
    /\ LET v == validate_asn(argv.asn)
       IN  ret' = [status |-> v.ok, value |-> v.value, error |-> <<>>]
    /\ pc' = "asn_return"
    /\ UNCHANGED <<argv, args, response, requests, routes, out>>

NextAsn == AsnCall

SpecAsn == InitAsn /\ [][NextAsn]_vars

---------------------------------------------------------------------------
(* aggregate_routes applied to every list of valid CIDR prefixes *)

ValidCidrs ==
    {r \in [kind : {"cidr"}, ver : Families, addr : 0..(2^AddrBits - 1),
            len : 0..AddrBits] : IPNetwork(r).ok}

InitAgg ==
    /\ pc = "agg_call"
    /\ \E n \in 0..MaxRoutes : routes \in [1..n -> ValidCidrs]
    /\ argv = NoArgs
    /\ args = NoArgs
    /\ response = NoResponse
    /\ requests = 0
    /\ ret = NoRet
    /\ out = <<>>

AggCall ==
    /\ pc = "agg_call"
    /\ ret' = aggregate_routes(routes)
    /\ pc' = "agg_return"
    /\ UNCHANGED <<argv, args, response, requests, routes, out>>

NextAgg == AggCall

SpecAgg == InitAgg /\ [][NextAgg]_vars

---------------------------------------------------------------------------
(* Properties of aggregate_routes *)

ParsedNets(rs) == [i \in 1..Len(rs) |-> IPNetwork(rs[i]).net]

\* The addresses a list of route strings covers, each tagged with its family.
Covered(rs) ==
    UNION {{<<IPNetwork(rs[i]).net.ver, a>> :
              a \in NetFirst(IPNetwork(rs[i]).net)..NetLast(IPNetwork(rs[i]).net)} :
           i \in 1..Len(rs)}

OnlyFamily(rs, v) == SelectSeq(rs, LAMBDA r : r.ver = v)

Canonical(r) == NetFirst(IPNetwork(r).net) = r.addr

\* C1: aggregate_routes succeeds on every list of valid CIDR prefixes, and
\* its output covers exactly the addresses the input covers.
C1_SameCoverage ==
    pc = "agg_return" =>
        /\ ret.status
        /\ \A i \in 1..Len(ret.value) : IPNetwork(ret.value[i]).ok
        /\ Covered(ret.value) = Covered(routes)

\* A full list with a duplicate and an entry with host bits set, which
\* collapses to two prefixes and leaves part of the IPv4 space uncovered.
C1_Witness ==
    /\ pc = "agg_return"
    /\ Len(routes) = MaxRoutes
    /\ \E i, j \in 1..Len(routes) : i # j /\ routes[i] = routes[j]
    /\ \E i \in 1..Len(routes) : ~Canonical(routes[i])
    /\ Len(ret.value) = 2
    /\ \E a \in 0..(2^AddrBits - 1) : <<4, a>> \notin Covered(ret.value)
    /\ \E a \in 0..(2^AddrBits - 1) : <<4, a>> \in Covered(ret.value)

Contains(outer, inner) ==
    /\ outer.ver = inner.ver
    /\ NetFirst(outer) <= NetFirst(inner)
    /\ NetLast(inner) <= NetLast(outer)

\* Two blocks of the same length that are the two halves of one block of
\* length one less.
Siblings(m, n) ==
    /\ m.ver = n.ver
    /\ m.prefixlen = n.prefixlen
    /\ m.prefixlen > 0
    /\ NetFirst(n) = NetFirst(m) + BlockSize(m.ver, m.prefixlen)
    /\ NetFirst(m) % (2 * BlockSize(m.ver, m.prefixlen)) = 0

\* C2: the output is minimal: no output prefix equals or lies inside
\* another, and no two output prefixes are mergeable siblings.
C2_Minimal ==
    pc = "agg_return" =>
        LET o == ParsedNets(ret.value)
        IN  \A i, j \in 1..Len(o) :
                i # j => ~Contains(o[i], o[j]) /\ ~Siblings(o[i], o[j])

\* Four distinct consecutive blocks of one length, given out of order,
\* cascade into the single block two bits shorter.
C2_Witness ==
    /\ pc = "agg_return"
    /\ Len(routes) = 4
    /\ \A i, j \in 1..4 :
          /\ routes[i].ver = 4
          /\ routes[i].len = routes[1].len
          /\ i # j => NetFirst(IPNetwork(routes[i]).net)
                        # NetFirst(IPNetwork(routes[j]).net)
    /\ NetFirst(IPNetwork(routes[1]).net) > NetFirst(IPNetwork(routes[2]).net)
    /\ Len(ret.value) = 1
    /\ ret.value[1].len = routes[1].len - 2

\* C3: IPv4 and IPv6 entries are never merged with each other: each family
\* is aggregated as if it were alone, and in the output every IPv4 prefix
\* comes before every IPv6 prefix.
C3_FamiliesApart ==
    pc = "agg_return" =>
        /\ ret.value = OnlyFamily(ret.value, 4) \o OnlyFamily(ret.value, 6)
        /\ \A v \in Families :
              /\ OnlyFamily(ret.value, v) = aggregate_routes(OnlyFamily(routes, v)).value
              /\ Covered(OnlyFamily(ret.value, v)) = Covered(OnlyFamily(routes, v))

\* An IPv6 prefix first in the input, next to IPv4 prefixes that reach the
\* top of the IPv4 space, and both families in the output.
C3_Witness ==
    /\ pc = "agg_return"
    /\ Len(routes) >= 3
    /\ routes[1].ver = 6
    /\ NetFirst(IPNetwork(routes[1]).net) = 0
    /\ \E i \in 2..Len(routes) :
          routes[i].ver = 4 /\ NetLast(IPNetwork(routes[i]).net) = 2^AddrBits - 1
    /\ OnlyFamily(ret.value, 4) # <<>>
    /\ OnlyFamily(ret.value, 6) # <<>>

---------------------------------------------------------------------------
(* Properties of main *)

Flatten(objects) ==
    IF objects = <<>> THEN <<>>
    ELSE LET F[i \in 0..Len(objects)] ==
                 IF i = 0 THEN <<>> ELSE F[i - 1] \o objects[i]
         IN  F[Len(objects)]

RequestedNames(a) ==
    (IF a.ipv4 THEN {"route"} ELSE {}) \cup (IF a.ipv6 THEN {"route6"} ELSE {})

\* The values of the requested route attributes of the response, in
\* response order.
RequestedValues ==
    LET wanted == SelectSeq(Flatten(response.objects),
                            LAMBDA at : at.name \in RequestedNames(argv))
    IN  [i \in 1..Len(wanted) |-> wanted[i].value]

LookupFailed ==
    response.kind \in {"transport", "http_error", "not_json", "no_objects",
                       "no_object_list"}

UnparsableRetrieved ==
    /\ response.kind = "objects"
    /\ \E i \in 1..Len(RequestedValues) : ~IPNetwork(RequestedValues[i]).ok

\* C4: a run that detects an error (invalid ASN, failed lookup, or with -a
\* a retrieved string that does not parse) prints no route line at all.
C4_NoPartialOutput ==
    (\/ ~validate_asn(argv.asn).ok
     \/ LookupFailed
     \/ argv.aggregate /\ UnparsableRetrieved
     \/ pc \in {"exit_usage", "exit_traceback", "return_lookup_failed",
                "return_agg_failed"})
        => RouteLines(out) = <<>>

\* With -a, a good string retrieved before the bad one: the run has ended
\* on the aggregation error and printed no route.
C4_Witness ==
    /\ pc = "return_agg_failed"
    /\ Len(RequestedValues) = 2
    /\ IPNetwork(RequestedValues[1]).ok
    /\ ~IPNetwork(RequestedValues[2]).ok
    /\ RouteLines(out) = <<>>

FailedRun == pc \in {"exit_traceback", "return_lookup_failed", "return_agg_failed"}

\* C5: every failed run with a valid ASN and a family selected prints a
\* line "ERROR: <message>".
C5_ErrorLineOnEveryFailure ==
    FailedRun => \E i \in 1..Len(out) : out[i].prefix = "ERROR: "

UsagePrinted == \E i \in 1..Len(out) : out[i].prefix = "usage: "

\* C6: with neither -4 nor -6 the run makes no request and prints no route
\* line, and it ends with the usage text printed, whether or not the ASN
\* is valid and whether or not -a is given.
C6_NoFamilyNoRoutes ==
    (~argv.ipv4 /\ ~argv.ipv6) =>
        /\ requests = 0
        /\ response = NoResponse
        /\ RouteLines(out) = <<>>
        /\ pc \in {"parse_args", "check_family", "exit_usage", "return_no_family"}
        /\ pc \in {"exit_usage", "return_no_family"} => UsagePrinted

C6_Witness ==
    /\ pc = "return_no_family"
    /\ argv.aggregate
    /\ ~argv.ipv4 /\ ~argv.ipv6
    /\ validate_asn(argv.asn).ok
    /\ UsagePrinted

\* C7: without -a, after a successful lookup, the printed lines are the
\* values of the requested route attributes, in response order, unchanged.
C7_RawPassThrough ==
    (pc = "return_ok" /\ ~argv.aggregate) =>
        /\ Len(out) = Len(RequestedValues)
        /\ \A i \in 1..Len(out) :
              /\ out[i].src = "L190"
              /\ out[i].stream = "stdout"
              /\ out[i].prefix = ""
              /\ out[i].body = <<RequestedValues[i]>>

\* -4 only: an unparsable route value is printed as it is, the route6
\* value that precedes it is not.
C7_Witness ==
    /\ pc = "return_ok"
    /\ ~argv.aggregate /\ argv.ipv4 /\ ~argv.ipv6
    /\ Len(Flatten(response.objects)) = 2
    /\ Flatten(response.objects)[1].name = "route6"
    /\ Len(out) = 1
    /\ out[1].body = <<NoRoute>>

EmptyResult ==
    /\ response.kind \in {"no_objects", "objects"}
    /\ RequestedValues = <<>>

\* C8: a response that yields no requested route string makes get_routes
\* fail and main report an error.
C8_EmptyIsFailure ==
    EmptyResult =>
        /\ pc = "check_status" => ~ret.status
        /\ pc \notin {"aggregate", "print", "return_ok"}

AfterRequest ==
    {"check_status", "aggregate", "print", "return_ok", "return_lookup_failed",
     "return_agg_failed", "exit_traceback"}

\* C10: no request before the ASN and the family selection have been
\* checked, none at all for an invalid ASN, exactly one once both checks
\* have passed, and aggregation and printing only after it.
C10_OneRequestAfterChecks ==
    /\ requests \in {0, 1}
    /\ requests = 1 =>
          /\ validate_asn(argv.asn).ok
          /\ argv.ipv4 \/ argv.ipv6
          /\ pc \in AfterRequest
    /\ ~validate_asn(argv.asn).ok => requests = 0 /\ response = NoResponse
    /\ pc \in AfterRequest => requests = 1
    /\ (RouteLines(out) # <<>> \/ ret # NoRet) => requests = 1

C10_Witness ==
    /\ pc = "return_ok"
    /\ argv.aggregate
    /\ requests = 1
    /\ Len(RouteLines(out)) = 1
    /\ Len(RequestedValues) = 2

---------------------------------------------------------------------------
(* Property of validate_asn *)

ClaimedValidAsn(s) ==
    /\ Len(s) \in 3..(2 + MaxAsnDigits)
    /\ s[1] = "A" /\ s[2] = "S"
    /\ \A i \in 3..Len(s) : s[i] \in Digits

\* C9: validate_asn accepts exactly the strings "AS" + 1 to 6 digits, and
\* returns an accepted string unchanged.
C9_ExactAsn ==
    pc = "asn_return" =>
        /\ ret.status <=> ClaimedValidAsn(argv.asn)
        /\ ret.status => ret.value = argv.asn

====
